---- MODULE Spec2Model ----
(***************************************************************************)
(* Model of datamodel/converters.pyx: the primitive converters, the        *)
(* encoders registry, parse_type and parse_basic.                          *)
(*                                                                         *)
(* Python values are records of one shape (tag, n, f, s, items) so that    *)
(* any two of them can be compared.  Text is a sequence of one-character   *)
(* strings.  A call yields a Result: either a returned value or the name   *)
(* of the exception that escapes.                                          *)
(*                                                                         *)
(* The file defines the converters, the registry and parse_type twice; the *)
(* later definitions (from line 286 on) rebind the names and are the ones  *)
(* in effect, and the ones modelled here.                                  *)
(***************************************************************************)
EXTENDS Integers, Sequences, FiniteSets, TLC

(* ---------------- bounds of the model ---------------- *)

\* longest raw list / tuple drawn as an input
MaxLen == 2

(* ---------------- Python values ---------------- *)

Val(tag, n, f, s, items) == [tag |-> tag, n |-> n, f |-> f, s |-> s, items |-> items]

None == Val("NoneType", 0, 0, <<>>, <<>>)
PyInt(n) == Val("int", n, 0, <<>>, <<>>)
Bool(b) == Val("bool", IF b THEN 1 ELSE 0, 0, <<>>, <<>>)
Float(n, f) == Val("float", n, f, <<>>, <<>>)
Dec(n, f) == Val("Decimal", n, f, <<>>, <<>>)
Str(s) == Val("str", 0, 0, s, <<>>)
Bytes(s) == Val("bytes", 0, 0, s, <<>>)
List(items) == Val("list", 0, 0, <<>>, items)
Tuple(items) == Val("tuple", 0, 0, <<>>, items)
\* a dict is the sequence of its entries, in insertion order
Entry(key, v) == Val("entry", 0, 0, key, <<v>>)
Dict(entries) == Val("dict", 0, 0, <<>>, entries)
Uuid(hex) == Val("UUID", 0, 0, hex, <<>>)
\* n = yyyymmdd
Date(n) == Val("date", n, 0, <<>>, <<>>)
\* n = yyyymmdd, f = second of the day
DateTime(n, f) == Val("datetime", n, f, <<>>, <<>>)
\* n = second of the day, f = microsecond
Time(n, f) == Val("time", n, f, <<>>, <<>>)
\* n = signed seconds, f = signed microseconds
TimeDelta(n, f) == Val("timedelta", n, f, <<>>, <<>>)
\* an instance of the dataclass named cls, items = its field values
Instance(cls, items) == Val("dataclass", 0, 0, <<cls>>, items)
\* a zero-argument function returning ret
Function(ret) == Val("function", 0, 0, <<>>, <<ret>>)
\* a zero-argument function whose call raises
RaisingFunction == Val("function", 1, 0, <<>>, <<>>)
\* what an override encoder returns for raw: a value marked as encoded
Encoded(raw) == Val("encoded", 0, 0, <<>>, <<raw>>)

(* ---------------- results of a call ---------------- *)

Ret(v) == [k |-> "return", val |-> v, exc |-> ""]
Raise(e) == [k |-> "raise", val |-> None, exc |-> e]
NoResult == [k |-> "none", val |-> None, exc |-> ""]

Returned(r) == r.k = "return"
Raised(r) == r.k = "raise"

(* ---------------- isinstance / callable ---------------- *)

IsNone(v) == v.tag = "NoneType"
IsInt(v) == v.tag \in {"int", "bool"}
IsBool(v) == v.tag = "bool"
IsStr(v) == v.tag = "str"
IsBytes(v) == v.tag = "bytes"
IsList(v) == v.tag = "list"
IsTuple(v) == v.tag = "tuple"
IsDict(v) == v.tag = "dict"
IsDate(v) == v.tag \in {"date", "datetime"}
IsCallable(v) == v.tag = "function"
IsInstance(v) == v.tag = "dataclass"

\* obj() for a zero-argument function
CallFunction(v) == IF v.n = 1 THEN Raise("RuntimeError") ELSE Ret(v.items[1])

(* ---------------- text ---------------- *)

Digits == <<"0", "1", "2", "3", "4", "5", "6", "7", "8", "9">>
IsDigit(c) == \E i \in 1..10 : Digits[i] = c
DigitVal(c) == (CHOOSE i \in 1..10 : Digits[i] = c) - 1
HexLetters == {"a", "b", "c", "d", "e", "f"}
IsHex(c) == IsDigit(c) \/ c \in HexLetters

Upper == <<"A", "B", "C", "D", "E", "F", "G", "H", "I", "J", "K", "L", "M",
           "N", "O", "P", "Q", "R", "S", "T", "U", "V", "W", "X", "Y", "Z">>
Lower == <<"a", "b", "c", "d", "e", "f", "g", "h", "i", "j", "k", "l", "m",
           "n", "o", "p", "q", "r", "s", "t", "u", "v", "w", "x", "y", "z">>
LowerChar(c) == IF \E i \in 1..26 : Upper[i] = c
                THEN Lower[CHOOSE i \in 1..26 : Upper[i] = c]
                ELSE c
\* str.lower()
lower(s) == [i \in 1..Len(s) |-> LowerChar(s[i])]

AllDigits(s) == Len(s) > 0 /\ \A i \in 1..Len(s) : IsDigit(s[i])

RECURSIVE DigitsToNat(_)
DigitsToNat(s) == IF Len(s) = 0 THEN 0
                  ELSE 10 * DigitsToNat(SubSeq(s, 1, Len(s) - 1)) + DigitVal(s[Len(s)])

RECURSIVE NatToDigits(_)
NatToDigits(n) == IF n < 10 THEN <<Digits[n + 1]>>
                  ELSE NatToDigits(n \div 10) \o <<Digits[(n % 10) + 1]>>

\* number of leading digits of s
RECURSIVE DigitRun(_)
DigitRun(s) == IF Len(s) = 0 \/ ~IsDigit(s[1]) THEN 0 ELSE 1 + DigitRun(Tail(s))

\* position of the first occurrence of c in s, 0 when absent
IndexOf(s, c) == IF \E i \in 1..Len(s) : s[i] = c
                 THEN CHOOSE i \in 1..Len(s) : s[i] = c /\ \A j \in 1..(i - 1) : s[j] # c
                 ELSE 0

\* str.split(sep)
RECURSIVE split(_, _)
split(s, sep) == LET i == IndexOf(s, sep)
                 IN IF i = 0 THEN <<s>>
                    ELSE <<SubSeq(s, 1, i - 1)>> \o split(SubSeq(s, i + 1, Len(s)), sep)

Min(a, b) == IF a < b THEN a ELSE b

(* ---------------- Python builtins the converters call ---------------- *)

\* text of a signed decimal integer
IsIntText(s) == IF Len(s) > 0 /\ s[1] \in {"-", "+"} THEN AllDigits(Tail(s)) ELSE AllDigits(s)
IntTextVal(s) == IF s[1] = "-" THEN 0 - DigitsToNat(Tail(s))
                 ELSE IF s[1] = "+" THEN DigitsToNat(Tail(s))
                 ELSE DigitsToNat(s)

\* text digits "." digits (no sign, no exponent)
IsPointText(s) == LET i == IndexOf(s, ".")
                  IN i > 1 /\ i < Len(s) /\ AllDigits(SubSeq(s, 1, i - 1))
                     /\ AllDigits(SubSeq(s, i + 1, Len(s))) /\ Len(s) - i <= 6
\* the fraction digits as microunits: right-padded with zeros to six digits
RECURSIVE PadMicros(_)
PadMicros(s) == IF Len(s) >= 6 THEN DigitsToNat(SubSeq(s, 1, 6)) ELSE PadMicros(s \o <<"0">>)
PointTextInt(s) == DigitsToNat(SubSeq(s, 1, IndexOf(s, ".") - 1))
PointTextFrac(s) == PadMicros(SubSeq(s, IndexOf(s, ".") + 1, Len(s)))

\* int(obj)
py_int(obj) ==
    IF IsInt(obj) THEN Ret(PyInt(obj.n))
    ELSE IF obj.tag \in {"float", "Decimal"} THEN Ret(PyInt(obj.n))
    ELSE IF IsStr(obj) \/ IsBytes(obj)
         THEN IF IsIntText(obj.s) THEN Ret(PyInt(IntTextVal(obj.s))) ELSE Raise("ValueError")
    ELSE Raise("TypeError")

\* float(obj)
py_float(obj) ==
    IF IsInt(obj) THEN Ret(Float(obj.n, 0))
    ELSE IF obj.tag \in {"float", "Decimal"} THEN Ret(Float(obj.n, obj.f))
    ELSE IF IsStr(obj) \/ IsBytes(obj)
         THEN IF IsIntText(obj.s) THEN Ret(Float(IntTextVal(obj.s), 0))
              ELSE IF IsPointText(obj.s) THEN Ret(Float(PointTextInt(obj.s), PointTextFrac(obj.s)))
              ELSE Raise("ValueError")
    ELSE Raise("TypeError")

\* Decimal(obj): unparsable text raises decimal.InvalidOperation, an
\* ArithmeticError that is neither a ValueError nor a TypeError
py_Decimal(obj) ==
    IF IsInt(obj) THEN Ret(Dec(obj.n, 0))
    ELSE IF obj.tag \in {"float", "Decimal"} THEN Ret(Dec(obj.n, obj.f))
    ELSE IF IsStr(obj)
         THEN IF IsIntText(obj.s) THEN Ret(Dec(IntTextVal(obj.s), 0))
              ELSE IF IsPointText(obj.s) THEN Ret(Dec(PointTextInt(obj.s), PointTextFrac(obj.s)))
              ELSE Raise("InvalidOperation")
    ELSE IF IsList(obj) \/ IsTuple(obj) THEN Raise("ValueError")
    ELSE Raise("TypeError")

\* bool(obj): truthiness
py_bool(obj) ==
    IF IsNone(obj) THEN FALSE
    ELSE IF obj.tag \in {"int", "bool", "float", "Decimal"} THEN obj.n # 0 \/ obj.f # 0
    ELSE IF obj.tag \in {"str", "bytes"} THEN Len(obj.s) > 0
    ELSE IF obj.tag \in {"list", "tuple", "dict"} THEN Len(obj.items) > 0
    ELSE IF obj.tag = "timedelta" THEN obj.n # 0 \/ obj.f # 0
    ELSE TRUE

\* the hyphenated form of 32 hexadecimal digits
Hyphenate(h) == SubSeq(h, 1, 8) \o <<"-">> \o SubSeq(h, 9, 12) \o <<"-">> \o SubSeq(h, 13, 16)
                \o <<"-">> \o SubSeq(h, 17, 20) \o <<"-">> \o SubSeq(h, 21, 32)

\* str(obj); containers and other objects print as a bracketed tag
py_str(obj) ==
    IF IsStr(obj) THEN obj.s
    ELSE IF IsNone(obj) THEN <<"N", "o", "n", "e">>
    ELSE IF IsBool(obj) THEN (IF obj.n = 1 THEN <<"T", "r", "u", "e">> ELSE <<"F", "a", "l", "s", "e">>)
    ELSE IF obj.tag = "int" THEN (IF obj.n < 0 THEN <<"-">> \o NatToDigits(0 - obj.n) ELSE NatToDigits(obj.n))
    ELSE IF IsBytes(obj) THEN <<"b", "'">> \o obj.s \o <<"'">>
    ELSE IF obj.tag = "UUID" THEN Hyphenate(obj.s)
    ELSE <<"<", obj.tag, ">">>

\* bytes(obj); the bytes built from a list of small integers are not told apart
py_bytes(obj) ==
    IF IsBytes(obj) THEN Ret(obj)
    ELSE IF IsInt(obj) THEN (IF obj.n < 0 THEN Raise("ValueError")
                             ELSE Ret(Bytes([i \in 1..obj.n |-> "\\0"])))
    ELSE IF IsList(obj) \/ IsTuple(obj)
         THEN IF \A i \in 1..Len(obj.items) : IsInt(obj.items[i])
              THEN IF \A i \in 1..Len(obj.items) : obj.items[i].n \in 0..255
                   THEN Ret(Bytes([i \in 1..Len(obj.items) |-> "\\x"]))
                   ELSE Raise("ValueError")
              ELSE Raise("TypeError")
    ELSE Raise("TypeError")

\* UUID(text): hyphens are ignored, 32 hexadecimal digits are required
RemoveHyphens(s) == SelectSeq(s, LAMBDA c : c # "-")
py_UUID(s) == LET h == RemoveHyphens(lower(s))
              IN IF Len(h) = 32 /\ \A i \in 1..32 : IsHex(h[i])
                 THEN Ret(Uuid(h)) ELSE Raise("ValueError")

\* bytes.decode("ascii")
decode(obj) == Str(obj.s)

(* ---------------- JSON decoder (orjson.loads) ---------------- *)

IsJsonString(s) == Len(s) >= 2 /\ s[1] = "\"" /\ s[Len(s)] = "\""
                   /\ \A i \in 2..(Len(s) - 1) : s[i] \notin {"\"", "\\"}
IsJsonInt(s) == IF Len(s) > 0 /\ s[1] = "-" THEN AllDigits(Tail(s)) ELSE AllDigits(s)
IsJsonScalar(s) == IsJsonString(s) \/ IsJsonInt(s)
                   \/ s \in {<<"t", "r", "u", "e">>, <<"f", "a", "l", "s", "e">>, <<"n", "u", "l", "l">>}
JsonScalar(s) == IF IsJsonString(s) THEN Str(SubSeq(s, 2, Len(s) - 1))
                 ELSE IF IsJsonInt(s) THEN PyInt(IntTextVal(s))
                 ELSE IF s = <<"t", "r", "u", "e">> THEN Bool(TRUE)
                 ELSE IF s = <<"f", "a", "l", "s", "e">> THEN Bool(FALSE)
                 ELSE None

\* a scalar, an empty object, or an array of scalars; any other text is malformed
\* (JSONDecodeError is a ValueError)
json_loads(s) ==
    IF IsJsonScalar(s) THEN Ret(JsonScalar(s))
    ELSE IF s = <<"{", "}">> THEN Ret(Dict(<<>>))
    ELSE IF s = <<"[", "]">> THEN Ret(List(<<>>))
    ELSE IF Len(s) > 2 /\ s[1] = "[" /\ s[Len(s)] = "]"
         THEN LET parts == split(SubSeq(s, 2, Len(s) - 1), ",")
              IN IF \A i \in 1..Len(parts) : IsJsonScalar(parts[i])
                 THEN Ret(List([i \in 1..Len(parts) |-> JsonScalar(parts[i])]))
                 ELSE Raise("ValueError")
    ELSE Raise("ValueError")

(* ---------------- date parsers (ciso8601, fromisoformat, pendulum) ---------------- *)

\* YYYY-MM-DD
IsIsoDate(s) == /\ Len(s) = 10 /\ s[5] = "-" /\ s[8] = "-"
                /\ AllDigits(SubSeq(s, 1, 4)) /\ AllDigits(SubSeq(s, 6, 7)) /\ AllDigits(SubSeq(s, 9, 10))
                /\ DigitsToNat(SubSeq(s, 6, 7)) \in 1..12
                /\ DigitsToNat(SubSeq(s, 9, 10)) \in 1..28
IsoDateVal(s) == DigitsToNat(SubSeq(s, 1, 4)) * 10000 + DigitsToNat(SubSeq(s, 6, 7)) * 100
                 + DigitsToNat(SubSeq(s, 9, 10))

\* ciso8601.parse_datetime(text) and datetime.fromisoformat(text): a datetime or ValueError
parse_datetime(s) == IF IsIsoDate(s) THEN Ret(DateTime(IsoDateVal(s), 0)) ELSE Raise("ValueError")

\* datetime.fromisoformat(obj): a TypeError when obj is not text
fromisoformat(obj) == IF IsStr(obj) THEN parse_datetime(obj.s) ELSE Raise("TypeError")

\* pendulum.parse(obj, strict=False): whether it recognises text that is no ISO
\* date is the parser's matter; accepts tells which, and such text resolves to
\* the current day
pendulum_parse(obj, accepts) ==
    IF ~IsStr(obj) THEN Raise("TypeError")
    ELSE IF IsIsoDate(obj.s) THEN Ret(DateTime(IsoDateVal(obj.s), 0))
    ELSE IF accepts THEN Ret(DateTime(20240105, 0))
    ELSE Raise("ParserError")

\* datetime.date()
date_of(dt) == Date(dt.n)

(* ---------------- TIMEDELTA_RE / TIME_RE ---------------- *)

NoMatch == [ok |-> FALSE, neg |-> FALSE, h |-> <<>>, m |-> <<>>, sec |-> <<>>, frac |-> <<>>]

\* (\d{1,maxH}):(\d{1,2}):(\d{1,2})(?:.(\d{1,6}))? matched at the start of s
MatchHMS(s, maxH) ==
    LET r1 == DigitRun(s)
        s2 == SubSeq(s, r1 + 2, Len(s))
        r2 == DigitRun(s2)
        s3 == SubSeq(s2, r2 + 2, Len(s2))
        r3 == Min(DigitRun(s3), 2)
        s4 == SubSeq(s3, r3 + 2, Len(s3))
        r4 == Min(DigitRun(s4), 6)
    IN IF /\ r1 \in 1..maxH /\ Len(s) > r1 /\ s[r1 + 1] = ":"
          /\ r2 \in 1..2 /\ Len(s2) > r2 /\ s2[r2 + 1] = ":"
          /\ r3 >= 1
       THEN [ok |-> TRUE, neg |-> FALSE, h |-> SubSeq(s, 1, r1), m |-> SubSeq(s2, 1, r2),
             sec |-> SubSeq(s3, 1, r3),
             frac |-> IF Len(s3) > r3 /\ s3[r3 + 1] # "\n" /\ r4 >= 1 THEN SubSeq(s4, 1, r4) ELSE <<>>]
       ELSE NoMatch

\* TIMEDELTA_RE.match(s)
TIMEDELTA_RE(s) ==
    IF Len(s) > 0 /\ s[1] = "-"
    THEN [MatchHMS(Tail(s), 3) EXCEPT !.neg = MatchHMS(Tail(s), 3).ok]
    ELSE MatchHMS(s, 3)

\* TIME_RE.match(s)
TIME_RE(s) == MatchHMS(s, 2)

_convert_second_fraction(s) == IF Len(s) = 0 THEN 0 ELSE PadMicros(s)

\* datetime.time(hour, minute, second, microsecond)
py_time(h, m, sec, us) ==
    IF h \in 0..23 /\ m \in 0..59 /\ sec \in 0..59 /\ us \in 0..999999
    THEN Ret(Time((h * 60 + m) * 60 + sec, us))
    ELSE Raise("ValueError")

\* datetime.time(*map(int, text.split(':')))
time_from_split(s) ==
    LET parts == split(s, ":")
        arg(i) == IF i <= Len(parts) THEN IntTextVal(parts[i]) ELSE 0
    IN IF \E i \in 1..Len(parts) : ~IsIntText(parts[i]) THEN Raise("ValueError")
       ELSE IF Len(parts) > 4 THEN Raise("TypeError")
       ELSE py_time(arg(1), arg(2), arg(3), arg(4))

(* ---------------- state ---------------- *)

VARIABLES
    T,          \* the declared type of the call
    data,       \* the raw value of the call
    encoder,    \* the override encoder of the call, "none" when absent
    flexible,   \* whether the flexible date parser recognises free text
    encoders,   \* the registry: class name -> converter name
    op,         \* the call made last
    result,     \* its Result
    first,      \* the Result of the call before a repeated coercion
    earlier     \* one of the calls made before the last, remembered with its Result

vars == <<T, data, encoder, flexible, encoders, op, result, first, earlier>>

(* ---------------- primitive converters ---------------- *)

\* a function given as the raw value: `try: return obj() except: pass`, after
\* which the converter runs off its end and returns None
call_or_none(obj) == IF Returned(CallFunction(obj)) THEN CallFunction(obj) ELSE Ret(None)

to_uuid(obj) ==
    IF obj.tag = "UUID" THEN Ret(obj)
    ELSE IF IsCallable(obj) /\ Returned(CallFunction(obj)) THEN CallFunction(obj)
    ELSE IF Returned(py_UUID(py_str(obj))) THEN py_UUID(py_str(obj))
    ELSE Ret(None)

to_date(obj) ==
    IF IsNone(obj) THEN Ret(None)
    ELSE IF IsDate(obj) THEN Ret(obj)
    ELSE IF IsStr(obj) /\ Returned(parse_datetime(obj.s)) THEN Ret(date_of(parse_datetime(obj.s).val))
    ELSE LET text == IF IsBytes(obj) THEN decode(obj) ELSE obj
             iso == fromisoformat(text)
             pen == pendulum_parse(text, flexible)
         IN IF Returned(iso) THEN Ret(date_of(iso.val))
            ELSE IF iso.exc # "ValueError" THEN iso
            ELSE IF Returned(pen) THEN Ret(date_of(pen.val))
            ELSE IF pen.exc \in {"ValueError", "TypeError", "ParserError"} THEN Raise("ValueError")
            ELSE pen

to_datetime(obj) ==
    IF IsNone(obj) THEN Ret(None)
    ELSE IF obj.tag = "datetime" THEN Ret(obj)
    ELSE IF IsStr(obj) /\ Returned(parse_datetime(obj.s)) THEN parse_datetime(obj.s)
    ELSE LET text == IF IsBytes(obj) THEN decode(obj) ELSE obj
             iso == fromisoformat(text)
             pen == pendulum_parse(text, flexible)
         IN IF Returned(iso) THEN iso
            ELSE IF iso.exc # "ValueError" THEN iso
            ELSE IF Returned(pen) THEN pen
            ELSE IF pen.exc \in {"ValueError", "TypeError", "ParserError"} THEN Raise("ValueError")
            ELSE pen

to_integer(obj) ==
    IF IsNone(obj) THEN Ret(None)
    ELSE IF IsInt(obj) THEN Ret(obj)
    ELSE IF IsCallable(obj) THEN call_or_none(obj)
    ELSE IF Returned(py_int(obj)) THEN py_int(obj)
    ELSE IF py_int(obj).exc \in {"TypeError", "ValueError"} THEN Raise("ValueError")
    ELSE py_int(obj)

to_float(obj) ==
    IF obj.tag \in {"float", "Decimal"} THEN Ret(obj)
    ELSE IF IsCallable(obj) THEN call_or_none(obj)
    ELSE IF Returned(py_float(obj)) THEN py_float(obj)
    ELSE IF py_float(obj).exc \in {"TypeError", "ValueError"} THEN Ret(None)
    ELSE py_float(obj)

to_decimal(obj) ==
    IF IsNone(obj) THEN Ret(None)
    ELSE IF obj.tag = "Decimal" THEN Ret(obj)
    ELSE IF IsCallable(obj) THEN call_or_none(obj)
    ELSE IF Returned(py_Decimal(obj)) THEN py_Decimal(obj)
    ELSE IF py_Decimal(obj).exc \in {"TypeError", "ValueError"} THEN Ret(None)
    ELSE py_Decimal(obj)

\* the function is declared to return datetime.timedelta: the compiled code
\* tests the type of what `return obj` hands back and raises TypeError for text
to_timedelta(obj) ==
    LET text == IF IsBytes(obj) THEN decode(obj) ELSE obj
        m == TIMEDELTA_RE(text.s)
        negate == IF m.neg THEN 0 - 1 ELSE 1
    IN IF ~IsStr(text) THEN Raise("TypeError")
       ELSE IF ~m.ok THEN Raise("TypeError")
       ELSE Ret(TimeDelta(negate * ((DigitsToNat(m.h) * 60 + DigitsToNat(m.m)) * 60 + DigitsToNat(m.sec)),
                          negate * _convert_second_fraction(m.frac)))

to_time(obj) ==
    IF IsNone(obj) THEN Ret(None)
    ELSE IF obj.tag = "time" THEN Ret(obj)
    ELSE IF IsCallable(obj) THEN call_or_none(obj)
    ELSE IF ~IsStr(obj) /\ ~IsBytes(obj) THEN Raise("AttributeError")
    ELSE IF IsStr(obj) /\ Returned(time_from_split(obj.s)) THEN time_from_split(obj.s)
    ELSE IF IsBytes(obj) THEN Raise("TypeError")
    ELSE LET m == TIME_RE(obj.s)
             t == py_time(DigitsToNat(m.h), DigitsToNat(m.m), DigitsToNat(m.sec),
                          _convert_second_fraction(m.frac))
         IN IF ~m.ok THEN Ret(obj)
            ELSE IF Returned(t) THEN t
            ELSE Raise("ValueError")

strtobool(val) ==
    LET v == lower(val)
    IN IF v \in {<<"y">>, <<"y", "e", "s">>, <<"t">>, <<"t", "r", "u", "e">>, <<"o", "n">>, <<"1">>}
       THEN Ret(Bool(TRUE))
       ELSE IF v \in {<<"n">>, <<"n", "o">>, <<"f">>, <<"f", "a", "l", "s", "e">>, <<"o", "f", "f">>, <<"0">>}
       THEN Ret(Bool(FALSE))
       ELSE Raise("ValueError")

to_boolean(obj) ==
    LET text == IF IsBytes(obj) THEN decode(obj) ELSE obj
    IN IF IsNone(obj) THEN Ret(Bool(FALSE))
       ELSE IF IsBool(obj) THEN Ret(obj)
       ELSE IF IsStr(text) THEN strtobool(text.s)
       ELSE IF IsCallable(text) THEN call_or_none(text)
       ELSE Ret(Bool(py_bool(text)))

to_object(obj) ==
    IF IsNone(obj) THEN Ret(None)
    ELSE IF IsList(obj) \/ IsDict(obj) \/ IsTuple(obj) THEN Ret(obj)
    ELSE IF IsCallable(obj) THEN call_or_none(obj)
    ELSE IF IsStr(obj) THEN (IF Returned(json_loads(obj.s)) THEN json_loads(obj.s) ELSE Ret(None))
    ELSE Raise("ValueError")

(* ---------------- the encoders registry ---------------- *)

EncodersInit ==
    [c \in {"UUID", "bool", "int", "float", "date", "datetime", "timedelta", "time",
            "Decimal", "dict", "list", "tuple"} |->
        CASE c = "UUID" -> "to_uuid"
          [] c = "bool" -> "to_boolean"
          [] c = "int" -> "to_integer"
          [] c = "float" -> "to_float"
          [] c = "date" -> "to_date"
          [] c = "datetime" -> "to_datetime"
          [] c = "timedelta" -> "to_timedelta"
          [] c = "time" -> "to_time"
          [] c = "Decimal" -> "to_decimal"
          [] OTHER -> "to_object"]

\* conv(data) for the converter found in the registry
Convert(conv, obj) ==
    CASE conv = "to_uuid" -> to_uuid(obj)
      [] conv = "to_boolean" -> to_boolean(obj)
      [] conv = "to_integer" -> to_integer(obj)
      [] conv = "to_float" -> to_float(obj)
      [] conv = "to_date" -> to_date(obj)
      [] conv = "to_datetime" -> to_datetime(obj)
      [] conv = "to_timedelta" -> to_timedelta(obj)
      [] conv = "to_time" -> to_time(obj)
      [] conv = "to_decimal" -> to_decimal(obj)
      [] OTHER -> to_object(obj)

(* ---------------- declared types ---------------- *)

\* a class: module is where it is defined
Cls(module, name) == [module |-> module, name |-> name, args |-> <<>>]
\* a typing construct: name is its _name, args its __args__
Typing(name, args) == [module |-> "typing", name |-> name, args |-> args]

NoneType == Cls("builtins", "NoneType")
str == Cls("builtins", "str")
bytes == Cls("builtins", "bytes")
Optional(X) == Typing("Optional", <<X, NoneType>>)
Union(args) == Typing("Union", args)
ListOf(E) == Typing("List", <<E>>)
DictOf(K, V) == Typing("Dict", <<K, V>>)

(* ---------------- dataclasses ---------------- *)

\* Point(x, y) and Tag(k, w=0)
DataclassNames == {"Point", "Tag"}
Point == Cls("app", "Point")
Tag == Cls("app", "Tag")
FieldNames(cls) == IF cls = "Point" THEN <<(<<"x">>), (<<"y">>)>> ELSE <<(<<"k">>), (<<"w">>)>>
\* number of leading fields without a default
Required(cls) == IF cls = "Point" THEN 2 ELSE 1
FieldDefault(cls, i) == PyInt(0)

\* is_dataclass(obj): a dataclass or an instance of one
is_dataclass(t) == t.module = "app" /\ t.name \in DataclassNames
is_dataclass_value(v) == IsInstance(v)

\* is_iterable(value)
is_iterable(v) == v.tag \in {"list", "tuple", "dict"}

\* cls(*args)
construct_args(cls, args) ==
    IF Len(args) < Required(cls) \/ Len(args) > Len(FieldNames(cls)) THEN Raise("TypeError")
    ELSE Ret(Instance(cls, [i \in 1..Len(FieldNames(cls)) |->
                              IF i <= Len(args) THEN args[i] ELSE FieldDefault(cls, i)]))

\* what *x unpacks to; ok is FALSE when x is not iterable
Unpack(x) ==
    IF IsList(x) \/ IsTuple(x) THEN [ok |-> TRUE, items |-> x.items]
    ELSE IF IsStr(x) THEN [ok |-> TRUE, items |-> [i \in 1..Len(x.s) |-> Str(<<x.s[i]>>)]]
    ELSE IF IsDict(x) THEN [ok |-> TRUE, items |-> [i \in 1..Len(x.items) |-> Str(x.items[i].s)]]
    ELSE [ok |-> FALSE, items |-> <<>>]

\* cls(*x)
construct_star(cls, x) == IF Unpack(x).ok THEN construct_args(cls, Unpack(x).items) ELSE Raise("TypeError")

\* cls(**d)
construct_kwargs(cls, d) ==
    LET names == FieldNames(cls)
        given(i) == \E j \in 1..Len(d.items) : d.items[j].s = names[i]
        value(i) == d.items[CHOOSE j \in 1..Len(d.items) : d.items[j].s = names[i]].items[1]
    IN IF \/ \E j \in 1..Len(d.items) : \A i \in 1..Len(names) : names[i] # d.items[j].s
          \/ \E i \in 1..Required(cls) : ~given(i)
       THEN Raise("TypeError")
       ELSE Ret(Instance(cls, [i \in 1..Len(names) |-> IF given(i) THEN value(i) ELSE FieldDefault(cls, i)]))

\* str(*args) and bytes(*args), str(**d) and bytes(**d): the classes without a
\* registered converter
plain_args(cls, args) ==
    IF Len(args) = 0 THEN Ret(IF cls = "str" THEN Str(<<>>) ELSE Bytes(<<>>))
    ELSE IF Len(args) = 1 THEN (IF cls = "str" THEN Ret(Str(py_str(args[1]))) ELSE py_bytes(args[1]))
    \* bytes(text, encoding): the texts of the model name no codec
    ELSE IF cls = "bytes" /\ Len(args) <= 3 /\ IsStr(args[1]) /\ IsStr(args[2]) THEN Raise("LookupError")
    ELSE Raise("TypeError")
plain_kwargs(cls, d) ==
    IF Len(d.items) = 0 THEN plain_args(cls, <<>>) ELSE Raise("TypeError")

\* a list built item by item: the list of the values when every item returned,
\* else what the first failing item raised
Collect(rs) ==
    IF \E i \in 1..Len(rs) : Raised(rs[i])
    THEN rs[CHOOSE i \in 1..Len(rs) : Raised(rs[i]) /\ \A j \in 1..(i - 1) : ~Raised(rs[j])]
    ELSE Ret(List([i \in 1..Len(rs) |-> rs[i].val]))

\* encoder(data) for an override encoder: one that returns, one that raises ValueError
call_encoder(e, obj) == IF e = "mark" THEN Ret(Encoded(obj)) ELSE Raise("ValueError")

(* ---------------- parse_type ---------------- *)

RECURSIVE parse_type(_, _, _)

\* T._name == 'Dict' and isinstance(data, dict)
parse_Dict(D, raw) ==
    LET vals == Collect([i \in 1..Len(raw.items) |-> parse_type(D.args[2], raw.items[i].items[1], "none")])
    IN IF Len(D.args) = 0 THEN Ret(None)
       ELSE IF Raised(vals) THEN vals
       ELSE Ret(Dict([i \in 1..Len(raw.items) |-> Entry(raw.items[i].s, vals.val.items[i])]))

\* List[X[t, ...]]: the element type is itself a typing construct
list_nested(arg_type, seq) ==
    IF Len(arg_type.args) = 0 THEN Ret(seq)
    ELSE IF is_dataclass(arg_type.args[1])
    THEN Collect([i \in 1..Len(seq.items) |->
                    IF IsDict(seq.items[i]) THEN construct_kwargs(arg_type.args[1].name, seq.items[i])
                    ELSE IF IsList(seq.items[i]) \/ IsTuple(seq.items[i])
                         THEN construct_star(arg_type.args[1].name, seq.items[i])
                    ELSE construct_args(arg_type.args[1].name, <<>>)])
    ELSE Ret(seq)

\* List[E], E a dataclass
list_dataclass(arg_type, seq) ==
    IF IsList(seq)
    THEN Collect([i \in 1..Len(seq.items) |->
                    IF is_dataclass_value(seq.items[i]) THEN Ret(seq.items[i])
                    ELSE IF IsList(seq.items[i]) THEN construct_star(arg_type.name, seq.items[i])
                    ELSE IF IsDict(seq.items[i]) THEN construct_kwargs(arg_type.name, seq.items[i])
                    ELSE construct_args(arg_type.name, <<seq.items[i]>>)])
    ELSE Raise("UnboundLocalError")

\* List[E], E a class that is no dataclass
list_scalar(arg_type, seq, enc) ==
    IF is_iterable(seq)
    THEN Collect([i \in 1..Len(seq.items) |-> parse_type(arg_type, seq.items[i], enc)])
    ELSE Ret(seq)

\* T._name == 'List'
parse_List(L, raw, enc) ==
    LET seq == IF IsList(raw) \/ IsTuple(raw) THEN raw ELSE List(<<raw>>)
    IN IF Len(L.args) = 0 THEN Raise("TypeError")
       ELSE IF L.args[1].module = "typing" THEN list_nested(L.args[1], seq)
       ELSE IF is_dataclass(L.args[1]) THEN list_dataclass(L.args[1], seq)
       ELSE list_scalar(L.args[1], seq, enc)

\* a slip: the first variant is taken wherever None stands
non_none_arg_first(args) == args[1]

\* non_none_arg = args[0] if args[1] is type(None) else args[1]
non_none_arg(args) == IF args[2] = NoneType THEN args[1] ELSE args[2]

\* Union whose first variant t is a typing construct
union_nested(t, raw) ==
    IF t.name = "List" /\ IsList(raw)
    THEN IF Len(t.args) = 0 THEN Raise("AttributeError")
         ELSE IF is_dataclass(t.args[1])
         THEN Collect([i \in 1..Len(raw.items) |->
                         IF IsDict(raw.items[i]) THEN construct_kwargs(t.args[1].name, raw.items[i])
                         ELSE construct_star(t.args[1].name, raw.items[i])])
         ELSE Ret(raw)
    ELSE Ret(raw)

\* Union whose first variant t is a class that is no dataclass
union_encoder(t, raw) ==
    IF t = str THEN Ret(raw)
    ELSE IF t.name \notin DOMAIN encoders THEN Ret(raw)
    ELSE IF IsNone(raw) THEN Ret(raw)
    ELSE LET r == Convert(encoders[t.name], raw)
         IN IF Returned(r) THEN r
            ELSE IF r.exc = "TypeError" THEN Ret(raw)
            ELSE IF r.exc \in {"ValueError", "RuntimeError"} THEN Raise("ValueError")
            ELSE r

\* the variant a Union without None is coerced with
union_variant(args) == args[1]

\* T._name is None or T._name in ('Optional', 'Union')
parse_Union(U, raw, enc) ==
    IF \E i \in 1..Len(U.args) : U.args[i] = NoneType
    THEN IF IsNone(raw) THEN Ret(None)
         ELSE parse_type(non_none_arg(U.args), raw, enc)
    ELSE LET t == union_variant(U.args)
         IN IF is_dataclass(t)
            THEN IF IsDict(raw) THEN construct_kwargs(t.name, raw)
                 ELSE IF IsList(raw) \/ IsTuple(raw) THEN construct_star(t.name, raw)
                 ELSE Ret(raw)
            ELSE IF t.module = "typing" THEN union_nested(t, raw)
            ELSE union_encoder(t, raw)

\* the last conversion: T(**data), T(*data) or T(data) for a class without a converter
last_conversion(C, raw) ==
    LET r == IF IsDict(raw) THEN plain_kwargs(C.name, raw)
             ELSE IF IsList(raw) \/ IsTuple(raw) THEN plain_args(C.name, raw.items)
             ELSE IF IsStr(raw) THEN plain_args(C.name, <<raw>>)
             ELSE Ret(raw)
    IN IF Returned(r) THEN r
       ELSE IF r.exc \in {"TypeError", "ValueError"} THEN Ret(raw)
       ELSE r

\* the class branch of parse_type: T is no typing construct
parse_class(C, raw, enc) ==
    IF enc # "none"
    THEN LET r == call_encoder(enc, raw)
         IN IF Raised(r) /\ r.exc = "ValueError" THEN Raise("ValueError") ELSE r
    ELSE IF is_dataclass(C)
    THEN IF IsDict(raw) THEN construct_kwargs(C.name, raw)
         ELSE IF IsList(raw) \/ IsTuple(raw) THEN construct_star(C.name, raw)
         ELSE construct_args(C.name, <<raw>>)
    ELSE IF C.name \in DOMAIN encoders
    THEN LET r == Convert(encoders[C.name], raw)
         IN IF Raised(r) /\ r.exc \in {"TypeError", "ValueError"} THEN Raise("ValueError") ELSE r
    ELSE last_conversion(C, raw)

parse_type(D, raw, enc) ==
    IF D.module = "typing"
    THEN IF D.name = "Dict" /\ IsDict(raw) THEN parse_Dict(D, raw)
         ELSE IF D.name = "List" THEN parse_List(D, raw, enc)
         ELSE IF D.name \in {"Optional", "Union"} THEN parse_Union(D, raw, enc)
         ELSE Ret(None)
    ELSE parse_class(D, raw, enc)

(* ---------------- parse_basic ---------------- *)

parse_basic(C, raw, enc) ==
    IF C = str THEN Ret(Str(py_str(raw)))
    ELSE IF C = bytes THEN py_bytes(raw)
    ELSE IF C.name \in DOMAIN encoders
    THEN LET r == Convert(encoders[C.name], raw)
         IN IF Raised(r) /\ r.exc \in {"TypeError", "ValueError"} THEN Raise("ValueError") ELSE r
    ELSE IF enc # "none"
    THEN LET r == call_encoder(enc, raw)
         IN IF Raised(r) /\ r.exc = "ValueError" THEN Raise("ValueError") ELSE r
    ELSE Ret(None)

(* ---------------- inputs ---------------- *)

UuidText == <<"0", "0", "0", "0", "0", "0", "0", "0", "-", "0", "0", "0", "0", "-", "0", "0", "0", "0", "-", "0", "0", "0", "0", "-", "0", "0", "0", "0", "0", "0", "0", "0", "0", "0", "0", "a">>

Texts == {<<"4", "2">>,
          <<"a", "b", "c">>,
          <<"y", "e", "s">>,
          <<"Y", "E", "S">>,
          <<"0">>,
          <<"m", "a", "y", "b", "e">>,
          <<"1", "2", ":", "3", "0", ":", "4", "5">>,
          <<"1", ":", "2", ":", "3">>,
          <<"2", "5", ":", "0", "0", ":", "0", "0">>,
          <<"1", "2">>,
          <<"-", "0", "1", ":", "0", "2", ":", "0", "3", ".", "2", "5">>,
          <<"1", ":", "2", ":", "3", "x", "y", "z">>,
          <<"2", "0", "2", "4", "-", "0", "1", "-", "0", "5">>,
          <<"\"", "a", "b", "c", "\"">>,
          <<"[", "1", ",", "2", "]">>,
          <<"1", ".", "5">>,
          <<"-", "7">>,
          UuidText}

DictXY == Dict(<<Entry(<<"x">>, PyInt(1)), Entry(<<"y">>, PyInt(2))>>)
PointInstance == Instance("Point", <<PyInt(1), PyInt(2)>>)

Scalars ==
    {None, PyInt(0), PyInt(5), Bool(TRUE), Bool(FALSE), Float(1, 500000), Dec(2, 0),
     Uuid(RemoveHyphens(UuidText)), Date(20240105), DateTime(20240105, 45045), Time(45045, 0),
     TimeDelta(3723, 250000), PointInstance, Instance("Tag", <<Str(<<"a">>), PyInt(0)>>),
     Function(PyInt(5)), Function(Str(<<"y", "e", "s">>)), RaisingFunction,
     Bytes(<<"y", "e", "s">>), Bytes(<<"1", ":", "2", ":", "3">>)}
    \cup {Str(t) : t \in Texts}

Dicts ==
    {Dict(<<>>), DictXY,
     Dict(<<Entry(<<"x">>, Str(<<"1">>)), Entry(<<"y">>, Str(<<"a">>))>>),
     Dict(<<Entry(<<"k">>, Str(<<"a">>))>>),
     Dict(<<Entry(<<"z">>, PyInt(1))>>)}

\* the items raw lists and tuples are made of
Items == {PyInt(1), Str(<<"4", "2">>), Str(<<"a", "b", "c">>), DictXY, PointInstance,
          List(<<PyInt(1), PyInt(2)>>)}

SeqsUpTo(S, n) == UNION {[1..k -> S] : k \in 0..n}

RawValues == Scalars \cup Dicts
             \cup {List(q) : q \in SeqsUpTo(Items, MaxLen)}
             \cup {Tuple(q) : q \in SeqsUpTo(Items, MaxLen)}

\* the classes with a converter in the registry
RegisteredNames == {"UUID", "bool", "int", "float", "date", "datetime", "timedelta", "time",
                    "Decimal", "dict", "list", "tuple"}
ModuleOf(c) == CASE c = "UUID" -> "uuid"
                 [] c \in {"date", "datetime", "timedelta", "time"} -> "datetime"
                 [] c = "Decimal" -> "decimal"
                 [] OTHER -> "builtins"
Registered == {Cls(ModuleOf(c), c) : c \in RegisteredNames}
int == Cls("builtins", "int")
Dataclasses == {Point, Tag}
Classes == Registered \cup Dataclasses \cup {str, bytes}

\* the variants unions are made of
Variants == {int, str, bytes, Point, Tag, Cls("datetime", "time"), ListOf(Point)}

Optionals == {Optional(X) : X \in Classes \cup {ListOf(int)}}
             \cup {Typing("Optional", <<NoneType, X>>) : X \in Classes \cup {ListOf(int)}}
Unions == {Union(<<a, b>>) : a, b \in Variants} \ {Union(<<a, a>>) : a \in Variants}
Lists == {ListOf(E) : E \in Classes \cup {ListOf(int), Optional(Point), Typing("List", <<>>)}}
         \cup {Typing("List", <<>>)}
MappingTypes == {DictOf(str, V) : V \in {int, Point, str, Cls("builtins", "float"), ListOf(int)}}
          \cup {Typing("Dict", <<>>)}
\* typing constructs that are no optional, union, list or mapping
Others == {Typing("Set", <<int>>), Typing("Tuple", <<int, int>>)}

DeclaredTypes == Classes \cup Optionals \cup Unions \cup Lists \cup MappingTypes \cup Others

Encoders == {"none", "mark", "value_error"}

(* ---------------- the calls ---------------- *)

\* no call remembered
NoCall == [T |-> NoneType, data |-> None, encoder |-> "none", op |-> "none", result |-> NoResult]

Init ==
    /\ T \in DeclaredTypes
    /\ data \in RawValues
    /\ encoder \in Encoders
    /\ flexible \in BOOLEAN
    /\ encoders = EncodersInit
    /\ op = "init"
    /\ result = NoResult
    /\ first = NoResult
    /\ earlier = NoCall

\* parse_type(T, data, encoder)
ParseType ==
    /\ op = "init"
    /\ op' = "parse_type"
    /\ result' = parse_type(T, data, encoder)
    /\ UNCHANGED <<T, data, encoder, flexible, encoders, first, earlier>>

\* parse_basic(T, data, encoder)
ParseBasic ==
    /\ op = "init"
    /\ op' = "parse_basic"
    /\ result' = parse_basic(T, data, encoder)
    /\ UNCHANGED <<T, data, encoder, flexible, encoders, first, earlier>>

\* parse_type(T, v, encoder) for the value v that parse_type(T, data, encoder) returned
ParseTypeAgain ==
    /\ op = "parse_type"
    /\ Returned(result)
    /\ op' = "parse_type_again"
    /\ first' = result
    /\ result' = parse_type(T, result.val, encoder)
    /\ UNCHANGED <<T, data, encoder, flexible, encoders, earlier>>

\* to_timedelta(data), the duration converter called on its own
ToTimedelta ==
    /\ op = "init"
    /\ op' = "to_timedelta"
    /\ result' = to_timedelta(data)
    /\ UNCHANGED <<T, data, encoder, flexible, encoders, first, earlier>>

Next == ParseType \/ ParseBasic \/ ParseTypeAgain \/ ToTimedelta

Spec == Init /\ [][Next]_vars

(* ---------------- sequences of calls ---------------- *)

\* the declared types, raw values and override encoders of the calls of a sequence
SeqTypes == {int, str, Point, Optional(int), ListOf(int)}
SeqValues == {None, Str(<<"4", "2">>), Str(<<"a", "b", "c">>), DictXY, List(<<PyInt(1)>>)}
SeqEncoders == {"none", "mark"}

\* a registry that remembers a converter for a class it had none for
registry_after_cached(reg, C) ==
    IF C.module # "typing" /\ C.name \notin DOMAIN reg
    THEN [c \in DOMAIN reg \cup {C.name} |-> IF c \in DOMAIN reg THEN reg[c] ELSE "to_object"]
    ELSE reg

\* the registry after a call for the declared type C: neither parse_type nor
\* parse_basic nor a converter assigns to encoders or to one of its entries
registry_after(reg, C) == reg

\* the module is loaded, no call was made
SeqInit ==
    /\ T = NoneType
    /\ data = None
    /\ encoder = "none"
    /\ flexible = FALSE
    /\ encoders = EncodersInit
    /\ op = "loaded"
    /\ result = NoResult
    /\ first = NoResult
    /\ earlier = NoCall

\* the call just made, as a later call may remember it
ThisCall == [T |-> T, data |-> data, encoder |-> encoder, op |-> op, result |-> result]
Remember == earlier' \in (IF op = "loaded" THEN {earlier} ELSE {earlier, ThisCall})

\* one more parse_type call
SeqParseType ==
    \E t \in SeqTypes, d \in SeqValues, e \in SeqEncoders :
        /\ T' = t /\ data' = d /\ encoder' = e
        /\ op' = "parse_type"
        /\ result' = parse_type(t, d, e)
        /\ encoders' = registry_after(encoders, t)
        /\ Remember
        /\ UNCHANGED <<flexible, first>>

\* one more parse_basic call
SeqParseBasic ==
    \E t \in SeqTypes, d \in SeqValues, e \in SeqEncoders :
        /\ T' = t /\ data' = d /\ encoder' = e
        /\ op' = "parse_basic"
        /\ result' = parse_basic(t, d, e)
        /\ encoders' = registry_after(encoders, t)
        /\ Remember
        /\ UNCHANGED <<flexible, first>>

SeqNext == SeqParseType \/ SeqParseBasic

SeqSpec == SeqInit /\ [][SeqNext]_vars

(* ---------------- properties ---------------- *)

\* the variant of an Optional that is not None
Inner(O) == CHOOSE a \in {O.args[1], O.args[2]} : a # NoneType

\* C2: for an Optional[X] declaration parse_type returns None when the raw value
\* is None, and for every other raw value exactly the Result of
\* parse_type(X, raw, encoder), whichever position None has among the variants.
C2_OptionalPassthrough ==
    (op = "parse_type" /\ T \in Optionals) =>
        IF IsNone(data) THEN result = Ret(None)
        ELSE result = parse_type(Inner(T), data, encoder)

\* an Optional with None first has coerced text to the integer it spells
C2_Witness ==
    /\ op = "parse_type"
    /\ T = Typing("Optional", <<NoneType, int>>)
    /\ data = Str(<<"4", "2">>)
    /\ encoder = "none"
    /\ result = Ret(PyInt(42))

\* whether value v has the shape the declared type D declares
RECURSIVE HasShape(_, _)
HasShape(D, v) ==
    IF D.module = "typing"
    THEN CASE D.name = "Optional" -> IsNone(v) \/ HasShape(Inner(D), v)
           [] D.name = "Union" -> \E i \in 1..Len(D.args) : HasShape(D.args[i], v)
           [] D.name = "List" -> IsList(v) /\ (Len(D.args) > 0 =>
                                   \A i \in 1..Len(v.items) : HasShape(D.args[1], v.items[i]))
           [] D.name = "Dict" -> IsDict(v) /\ (Len(D.args) > 0 =>
                                   \A i \in 1..Len(v.items) : HasShape(D.args[2], v.items[i].items[1]))
           [] OTHER -> TRUE
    ELSE IF is_dataclass(D) THEN IsInstance(v) /\ v.s = <<D.name>>
    ELSE CASE D.name = "int" -> IsInt(v)
           [] D.name = "date" -> IsDate(v)
           [] D.name \in {"dict", "list", "tuple"} -> v.tag \in {"dict", "list", "tuple"}
           [] OTHER -> v.tag = D.name

\* a declaration that cannot be classified: a typing construct that is no
\* optional, union, list or mapping, or a class without a registered converter
Unclassified(D) == D \in Others \cup {str, bytes}

\* C1: parse_type(T, v) returns a value of the shape T declares or raises; the
\* only other outcomes are the documented leniencies: None under an Optional, a
\* one-element list around a non-sequence (both are of the declared shape), and
\* the raw value itself for a declaration that cannot be classified.  Stated for
\* raw values other than None, where a returned None can only stand for a
\* conversion that did not happen.
C1_TypedOrRaises ==
    (op = "parse_type" /\ encoder = "none" /\ ~IsNone(data)) =>
        \/ Raised(result)
        \/ HasShape(T, result.val)
        \/ (Unclassified(T) /\ result.val = data)

\* how the claim builds an instance of the dataclass E from one item
ItemInstance(E, item) ==
    IF IsInstance(item) /\ item.s = <<E.name>> THEN Ret(item)
    ELSE IF IsDict(item) THEN construct_kwargs(E.name, item)
    ELSE IF IsList(item) \/ IsTuple(item) THEN construct_star(E.name, item)
    ELSE construct_args(E.name, <<item>>)

\* the Result the claim gives item number i of a List[E] coercion
ItemResult(E, item) == IF is_dataclass(E) THEN ItemInstance(E, item) ELSE parse_type(E, item, "none")

\* C3: for List[E], E a dataclass, a primitive or a container type, a raw value
\* that is no list or tuple counts as a one-element sequence, and when every item
\* is well-formed the result is the list of one result per item, in order: an
\* instance of E for a dataclass E, parse_type(E, item) otherwise.
C3_SequencePerItem ==
    (op = "parse_type" /\ encoder = "none" /\ T \in Lists /\ Len(T.args) > 0) =>
        LET E == T.args[1]
            items == IF IsList(data) \/ IsTuple(data) THEN data.items ELSE <<data>>
        IN (Len(E.args) > 0 \/ E.module # "typing") =>
           ((\A i \in 1..Len(items) : Returned(ItemResult(E, items[i]))) =>
               result = Ret(List([i \in 1..Len(items) |-> ItemResult(E, items[i]).val])))

\* C4: for Dict[K, V] and a raw mapping the result has the same keys, each bound
\* to parse_type(V, value); for a raw value that is no mapping, or a declaration
\* without type arguments, the result is the raw value itself.
C4_MappingValues ==
    (op = "parse_type" /\ T \in MappingTypes) =>
        IF IsDict(data) /\ Len(T.args) > 0
        THEN (\A i \in 1..Len(data.items) : Returned(parse_type(T.args[2], data.items[i].items[1], "none")))
             => result = Ret(Dict([i \in 1..Len(data.items) |->
                                    Entry(data.items[i].s,
                                          parse_type(T.args[2], data.items[i].items[1], "none").val)]))
        ELSE result = Ret(data)

\* C5: when no declaration shape matches the declared type, parse_type returns
\* the raw value itself.
C5_UnclassifiedPassthrough ==
    (op = "parse_type" /\ encoder = "none" /\ Unclassified(T)) => result = Ret(data)

\* the variant the claim selects: the first dataclass if there is one, else the
\* first variant with a converter in the registry; 0 when there is neither
SelectedVariant(args) ==
    LET firstOf(P(_)) == IF \E i \in 1..Len(args) : P(args[i])
                         THEN CHOOSE i \in 1..Len(args) : P(args[i]) /\ \A j \in 1..(i - 1) : ~P(args[j])
                         ELSE 0
        has_converter(a) == a.module # "typing" /\ a.name \in DOMAIN encoders
    IN IF firstOf(is_dataclass) # 0 THEN firstOf(is_dataclass) ELSE firstOf(has_converter)

\* C6: a Union without None is coerced with the selected variant wherever it
\* stands: the Result is that of the union that declares the selected variant first.
C6_UnionSelection ==
    (op = "parse_type" /\ T \in Unions /\ SelectedVariant(T.args) # 0) =>
        LET i == SelectedVariant(T.args)
            rest == SelectSeq(T.args, LAMBDA a : a # T.args[i])
        IN result = parse_type(Union(<<T.args[i]>> \o rest), data, encoder)

\* whether v is already an instance of the registered primitive kind C
OfKind(C, v) ==
    CASE C.name = "int" -> IsInt(v)
      [] C.name = "date" -> IsDate(v)
      [] C.name \in {"dict", "list", "tuple"} -> v.tag \in {"dict", "list", "tuple"}
      [] OTHER -> v.tag = C.name

\* C7: parse_type and parse_basic return a raw value that is already an
\* instance of the registered primitive kind, without raising.
C7_Identity ==
    (op \in {"parse_type", "parse_basic"} /\ encoder = "none" /\ T \in Registered /\ OfKind(T, data))
        => result = Ret(data)

\* C8: coercing to a primitive kind a value that the same coercion returned
\* returns that value again.
C8_Idempotent ==
    (op = "parse_type_again" /\ encoder = "none" /\ T \in Registered) => result = first

\* C9: parse_type returns an instance of the declared dataclass unchanged.
C9_InstanceUnchanged ==
    (op = "parse_type" /\ encoder = "none" /\ is_dataclass(T) /\ IsInstance(data) /\ data.s = <<T.name>>)
        => result = Ret(data)

\* C10: whatever parse_type or parse_basic raises is a ValueError.
C10_OnlyValueError ==
    (op \in {"parse_type", "parse_basic"} /\ Raised(result)) => result.exc = "ValueError"

\* text of the form (-)?H{1,3}:M{1,2}:S{1,2}(.fraction)?, taken as a whole
WellFormedDuration(s) ==
    LET body == IF Len(s) > 0 /\ s[1] = "-" THEN Tail(s) ELSE s
        parts == split(body, ":")
        dot == IndexOf(parts[3], ".")
        secs == IF dot = 0 THEN parts[3] ELSE SubSeq(parts[3], 1, dot - 1)
        frac == SubSeq(parts[3], dot + 1, Len(parts[3]))
    IN /\ Len(parts) = 3
       /\ AllDigits(parts[1]) /\ Len(parts[1]) <= 3
       /\ AllDigits(parts[2]) /\ Len(parts[2]) <= 2
       /\ AllDigits(secs) /\ Len(secs) <= 2
       /\ dot # 0 => (AllDigits(frac) /\ Len(frac) <= 6)

\* C11: to_timedelta raises for every input that is not, as a whole, a
\* well-formed duration text (bytes count as the text they decode to): it
\* neither returns the input nor a duration computed from a prefix of the text.
C11_MalformedDurationRaises ==
    (op = "to_timedelta" /\ ~((IsStr(data) \/ IsBytes(data)) /\ WellFormedDuration(data.s)))
        => Raised(result)

\* the Result of the override encoder as the caller sees it: its value, or ValueError
OverrideResult(e, raw) == IF e = "mark" THEN Ret(Encoded(raw)) ELSE Raise("ValueError")

\* C12: with an override encoder and a primitive declared type the Result is the
\* override encoder's, for parse_type and for parse_basic alike, also when the
\* type has a converter in the registry.
C12_OverrideEncoderWins ==
    (op \in {"parse_type", "parse_basic"} /\ encoder # "none" /\ T \in Registered \cup {str, bytes})
        => result = OverrideResult(encoder, data)

\* the last call has the function and the arguments of the remembered call
SameCall == /\ earlier # NoCall
            /\ earlier.op = op /\ earlier.T = T /\ earlier.data = data /\ earlier.encoder = encoder

====
